---- MODULE Spec2Model ----
(***************************************************************************)
(* Verilog analyzer (src/verilog_analyzer.py) and its tool front end       *)
(* (src/verilog_mcp_server.py).                                            *)
(*                                                                         *)
(* Text is a sequence of tokens; a token is a literal piece of text that   *)
(* no pattern of the program can match part of (a keyword, an identifier,  *)
(* a run of blanks, a LaTeX marker, ...).  Python indices are kept 0-based *)
(* and str.find keeps its -1.                                              *)
(***************************************************************************)
EXTENDS Integers, Sequences, FiniteSets, TLC

(***************************************************************************)
(* Bounds of the model.                                                    *)
(***************************************************************************)
MaxTemplateLen == 4
MaxModules == 2
MaxFragments == 4

None == "None"

\* the one element of a singleton: The({e(v) : v \in {d}}) is e with v bound to the
\* value of d, worked out once
The(S) == CHOOSE y \in S : TRUE

(***************************************************************************)
(* Python string primitives.                                               *)
(***************************************************************************)
\* s[lo:hi] for 0 <= lo, hi
PySlice(s, lo, hi) == SubSeq(s, lo + 1, IF hi < Len(s) THEN hi ELSE Len(s))

\* s[:hi]
PyPrefix(s, hi) == PySlice(s, 0, hi)

\* s[lo:]
PySuffix(s, lo) == PySlice(s, lo, Len(s))

\* sub occurs in s at 0-based offset i
OccursAt(s, sub, i) ==
    /\ i >= 0
    /\ i + Len(sub) <= Len(s)
    /\ \A k \in 1..Len(sub) : s[i + k] = sub[k]

\* str.find: offset of the first occurrence, -1 when there is none
PyFind(s, sub) ==
    The({IF hits = {} THEN -1 ELSE CHOOSE i \in hits : \A j \in hits : i <= j :
         hits \in {{i \in 0..Len(s) : OccursAt(s, sub, i)}}})

Blank == {" ", "\n", "\n\n"}

RECURSIVE LStrip(_)
LStrip(s) == IF s # <<>> /\ Head(s) \in Blank THEN LStrip(Tail(s)) ELSE s

RECURSIVE RStrip(_)
RStrip(s) ==
    IF s # <<>> /\ s[Len(s)] \in Blank THEN RStrip(SubSeq(s, 1, Len(s) - 1)) ELSE s

\* str.strip
PyStrip(s) == RStrip(LStrip(s))

\* sep.join(parts), parts a sequence of texts
RECURSIVE PyJoin(_, _)
PyJoin(sep, parts) ==
    IF parts = <<>> THEN <<>>
    ELSE IF Len(parts) = 1 THEN parts[1]
    ELSE parts[1] \o sep \o PyJoin(sep, Tail(parts))

(***************************************************************************)
(* Document assembly: _replace_entire_document_content.                    *)
(***************************************************************************)
BEGIN_DOC == <<"\\begin{document}">>
END_DOC == <<"\\end{document}">>
NLNL == <<"\n\n">>

ReplaceAndInsteadOfOr(template_content, new_content) ==
    The({IF begin_doc = -1 /\ end_doc = -1 THEN template_content
         ELSE PyPrefix(template_content,
                       IF begin_doc = -1 THEN 0 ELSE begin_doc + Len(BEGIN_DOC))
              \o NLNL \o new_content \o NLNL
              \o PySuffix(template_content,
                          IF end_doc = -1 THEN Len(template_content) ELSE end_doc) :
         begin_doc \in {PyFind(template_content, BEGIN_DOC)},
         end_doc \in {PyFind(template_content, END_DOC)}})

ReplaceEntireDocumentContent(template_content, new_content) ==
    The({IF begin_doc = -1 \/ end_doc = -1 THEN template_content
         ELSE LET before_doc == PyPrefix(template_content, begin_doc + Len(BEGIN_DOC))
                  after_doc == PySuffix(template_content, end_doc)
              IN  before_doc \o NLNL \o new_content \o NLNL \o after_doc :
         begin_doc \in {PyFind(template_content, BEGIN_DOC)},
         end_doc \in {PyFind(template_content, END_DOC)}})

(***************************************************************************)
(* The files the program reads.  A directory listing is the order          *)
(* glob.glob returns the directory's entries in.                           *)
(***************************************************************************)
AluText ==
    <<"module", " ", "alu", "(", "input", " ", "wire", " ", "[3:0]", " ", "a", ",",
      "output", " ", "reg", " ", "y", ")", ";", "endmodule">>
NotesText == <<"//", " ", "submodule", ",", "notes">>
FifoText ==
    <<"//", " ", "queue", "\n", "module", " ", "fifo", " ", "#", "(",
      "parameter", " ", "DEPTH", " ", "=", " ", "4", ")", "(", "input", " ", "d", ")", ";">>

\* id: a number naming the file in the event log; chars: the file name, for glob
FileSystem ==
    [p \in {"rtl/alu.v", "rtl/notes.v", "rtl/locked.v", "rtl/fifo.sv", "empty/readme.txt"} |->
        CASE p = "rtl/alu.v" ->
               [id |-> 1, base |-> "alu.v", chars |-> <<"a", ".", "v">>,
                readable |-> TRUE, text |-> AluText]
          [] p = "rtl/notes.v" ->
               [id |-> 2, base |-> "notes.v", chars |-> <<"n", ".", "v">>,
                readable |-> TRUE, text |-> NotesText]
          [] p = "rtl/locked.v" ->
               [id |-> 3, base |-> "locked.v", chars |-> <<"l", ".", "v">>,
                readable |-> FALSE, text |-> <<>>]
          [] p = "rtl/fifo.sv" ->
               [id |-> 4, base |-> "fifo.sv", chars |-> <<"f", ".", "s", "v">>,
                readable |-> TRUE, text |-> FifoText]
          [] p = "empty/readme.txt" ->
               [id |-> 5, base |-> "readme.txt", chars |-> <<"r", ".", "t", "x", "t">>,
                readable |-> TRUE, text |-> <<"module", " ", "doc">>]]

Paths == DOMAIN FileSystem

Listing(dir) ==
    CASE dir = "rtl" -> <<"rtl/alu.v", "rtl/notes.v", "rtl/locked.v", "rtl/fifo.sv">>
      [] dir = "empty" -> <<"empty/readme.txt">>
      [] OTHER -> <<>>

Dirs == {"rtl", "empty"}

\* os.path.exists
PathExists(p) == p \in Paths \/ p \in Dirs

\* an id for a path that names no file
FileId(p) == IF p \in Paths THEN FileSystem[p].id ELSE 0

(***************************************************************************)
(* Configuration files: _load_config and _initialize_openai_client.        *)
(***************************************************************************)
DefaultConfigPath == "config.yaml"

\* the settings of a configuration file that loads
Config(config_path) ==
    IF config_path = "twice.yaml"
    THEN [file_extensions |-> << <<".", "v">>, <<".", "v">> >>, directory |-> "rtl",
          latex_filename |-> "out.tex"]
    ELSE [file_extensions |-> << <<".", "v">>, <<".", "s", "v">> >>, directory |-> "rtl",
          latex_filename |-> "out.tex"]

\* what VerilogAnalyzer(config_path) raises, None when it raises nothing;
\* default_status is the state of config.yaml on this machine
ConfigError(config_path, default_status) ==
    CASE config_path = DefaultConfigPath -> default_status
      [] config_path = "twice.yaml" -> None
      [] config_path = "broken.yaml" -> "YAMLError"
      [] config_path = "nokey.yaml" -> "ValueError"
      [] OTHER -> "FileNotFoundError"

(***************************************************************************)
(* Regular expressions of the parser, on tokens.                           *)
(***************************************************************************)
Punct == {"(", ")", ",", ";", "=", "#", "//"}
Ranges == {"[3:0]"}

\* \w+ matches the whole token
IsWord(t) == t \notin Blank /\ t \notin Punct /\ t \notin Ranges

\* the tokens whose text ends with the keyword
EndsWith(kw) == IF kw = "module" THEN {"module", "endmodule", "submodule"} ELSE {kw}

\* the first index >= i that holds no blank (Len + 1 when there is none)
RECURSIVE SkipBlank(_, _)
SkipBlank(s, i) == IF i <= Len(s) /\ s[i] \in Blank THEN SkipBlank(s, i + 1) ELSE i

\* kw\s+ matches at i: the index after the blanks, 0 when it does not match
AfterKeyword(s, kw, i) ==
    IF i + 1 <= Len(s) /\ s[i] \in EndsWith(kw) /\ s[i + 1] \in Blank
    THEN SkipBlank(s, i + 1) ELSE 0

\* the least element of a set of numbers, 0 for the empty set
First(hits) == IF hits = {} THEN 0 ELSE CHOOSE h \in hits : \A g \in hits : h <= g

\* module\s+(\w+) matches at i: the index of the captured word, 0 when it does not match
ModuleAt(code, i) ==
    The({IF j # 0 /\ j <= Len(code) /\ IsWord(code[j]) THEN j ELSE 0 :
         j \in {AfterKeyword(code, "module", i)}})

\* re.search(r'module\s+(\w+)', code).group(1), None without a match
ModuleMatch(code) ==
    The({IF i = 0 THEN None ELSE code[ModuleAt(code, i)] :
         i \in {First({h \in 1..Len(code) : ModuleAt(code, h) # 0})}})

\* (?:\[[\d:\s]+\]\s+)?(\w+) at k: the index of the captured word, 0 without a match
RangeThenWord(s, k) ==
    The({IF m # 0 /\ m <= Len(s) /\ IsWord(s[m]) THEN m
         ELSE IF k <= Len(s) /\ IsWord(s[k]) THEN k
         ELSE 0 :
         m \in {IF k + 1 <= Len(s) /\ s[k] \in Ranges /\ s[k + 1] \in Blank
                THEN SkipBlank(s, k + 1) ELSE 0}})

\* (?:wire\s+|reg\s+) at j, then the rest: the index of the captured word, 0 without
ClassThenWord(s, j) ==
    IF j # 0 /\ j + 1 <= Len(s) /\ s[j] \in {"wire", "reg"} /\ s[j + 1] \in Blank
    THEN RangeThenWord(s, SkipBlank(s, j + 1)) ELSE 0

\* kw\s+(?:wire\s+|reg\s+)?(?:\[[\d:\s]+\]\s+)?(\w+) at i: index of the capture or 0
DeclMatch(s, kw, i) ==
    The({IF j = 0 THEN 0
         ELSE The({IF withClass # 0 THEN withClass ELSE RangeThenWord(s, j) :
                   withClass \in {ClassThenWord(s, j)}}) :
         j \in {AfterKeyword(s, kw, i)}})

\* re.findall of the declaration pattern from index i on
RECURSIVE FindAllDecl(_, _, _)
FindAllDecl(s, kw, i) ==
    IF i > Len(s) THEN <<>>
    ELSE The({IF m = 0 THEN FindAllDecl(s, kw, i + 1)
              ELSE <<s[m]>> \o FindAllDecl(s, kw, m + 1) :
              m \in {DeclMatch(s, kw, i)}})

\* the first index >= i holding "," or ")" (Len + 1 when there is none)
RECURSIVE ValueEnd(_, _)
ValueEnd(s, i) ==
    IF i <= Len(s) /\ s[i] \notin {",", ")"} THEN ValueEnd(s, i + 1) ELSE i

\* \s*=\s*([^,\)]+) at k, after the name at j: [name, from, to], to = 0 without a match
ParamValue(s, j, k) ==
    The({IF v = 0 THEN [name |-> j, from |-> 0, to |-> 0]
         ELSE The({IF e > v THEN [name |-> j, from |-> v, to |-> e - 1]
                   ELSE IF v > k + 1 THEN [name |-> j, from |-> v - 1, to |-> v - 1]
                   ELSE [name |-> j, from |-> 0, to |-> 0] :
                   e \in {ValueEnd(s, v)}}) :
         v \in {IF k # 0 /\ k <= Len(s) /\ s[k] = "=" THEN SkipBlank(s, k + 1) ELSE 0}})

\* parameter\s+(\w+)\s*=\s*([^,\)]+) at i: [name, from, to] of the match, to = 0 without
ParamMatch(s, i) ==
    The({ParamValue(s, j, IF j # 0 /\ j <= Len(s) /\ IsWord(s[j])
                          THEN SkipBlank(s, j + 1) ELSE 0) :
         j \in {AfterKeyword(s, "parameter", i)}})

RECURSIVE FindAllParam(_, _)
FindAllParam(s, i) ==
    IF i > Len(s) THEN <<>>
    ELSE The({IF m.to = 0 THEN FindAllParam(s, i + 1)
              ELSE << <<s[m.name], SubSeq(s, m.from, m.to)>> >> \o FindAllParam(s, m.to + 1) :
              m \in {ParamMatch(s, i)}})

\* a wire declaration is taken for an input declaration as well
ExtractPortsWireAsInput(code) ==
    [inputs |-> FindAllDecl(code, "input", 1) \o FindAllDecl(code, "wire", 1),
     outputs |-> FindAllDecl(code, "output", 1),
     parameters |-> FindAllParam(code, 1)]

\* _extract_ports
ExtractPorts(code) ==
    [inputs |-> FindAllDecl(code, "input", 1),
     outputs |-> FindAllDecl(code, "output", 1),
     parameters |-> FindAllParam(code, 1)]

(***************************************************************************)
(* The analyzer.  A method is an operator on the "world" w it runs in:     *)
(*   modules  self.modules                                                 *)
(*   events   what the method did, in program order                        *)
(*   outputs  the output files on disk                                     *)
(*   raised   the exception leaving the method (None: it returned)         *)
(***************************************************************************)
Ev(e, n) == [ev |-> e, n |-> n]

Emit(w, e, n) == [w EXCEPT !.events = Append(@, Ev(e, n))]

Raise(w, exc) == [w EXCEPT !.raised = exc, !.events = Append(@, Ev(exc, 0))]

\* the dataclass VerilogModule
VerilogModule(name, filename, code, ports) ==
    [name |-> name, filename |-> filename, code |-> code, ports |-> ports,
     description |-> <<>>, analysis |-> <<>>]

\* a file without a module match still gives a record, with an empty name
ParseVerilogFileKeepsUnmatched(w, file_path) ==
    LET opened == Emit(w, "open", FileId(file_path))
    IN  IF file_path \notin Paths \/ ~FileSystem[file_path].readable
        THEN Emit(opened, "parse_error", FileId(file_path))
        ELSE The({LET module == VerilogModule(IF module_name = None THEN "" ELSE module_name,
                                              FileSystem[file_path].base, code,
                                              ExtractPorts(code))
                  IN  Emit([opened EXCEPT !.modules = Append(@, module)],
                           "loaded", FileId(file_path)) :
                  code \in {FileSystem[file_path].text},
                  module_name \in {ModuleMatch(FileSystem[file_path].text)}})

\* _parse_verilog_file; every exception of the body is caught and logged
ParseVerilogFile(w, file_path) ==
    LET opened == Emit(w, "open", FileId(file_path))
    IN  IF file_path \notin Paths \/ ~FileSystem[file_path].readable
        THEN Emit(opened, "parse_error", FileId(file_path))
        ELSE The({IF module_name = None
                  THEN Emit(opened, "no_module", FileId(file_path))
                  ELSE LET module == VerilogModule(module_name, FileSystem[file_path].base,
                                                   code, ExtractPorts(code))
                       IN  Emit([opened EXCEPT !.modules = Append(@, module)],
                                "loaded", FileId(file_path)) :
                  code \in {FileSystem[file_path].text},
                  module_name \in {ModuleMatch(FileSystem[file_path].text)}})

\* name ends with ext
HasSuffix(name, ext) ==
    Len(ext) <= Len(name) /\ SubSeq(name, Len(name) - Len(ext) + 1, Len(name)) = ext

\* glob.glob(os.path.join(input_dir, "*" + ext))
Glob(input_dir, ext) ==
    SelectSeq(Listing(input_dir), LAMBDA p : HasSuffix(FileSystem[p].chars, ext))

\* verilog_files after the loop over the extensions from index i on
RECURSIVE GlobAll(_, _, _)
GlobAll(input_dir, extensions, i) ==
    IF i > Len(extensions) THEN <<>>
    ELSE Glob(input_dir, extensions[i]) \o GlobAll(input_dir, extensions, i + 1)

RECURSIVE ParseEach(_, _, _)
ParseEach(w, verilog_files, i) ==
    IF i > Len(verilog_files) THEN w
    ELSE ParseEach(ParseVerilogFile(w, verilog_files[i]), verilog_files, i + 1)

\* load_verilog_files
LoadVerilogFiles(w, config, input_dir) ==
    LET dir == IF input_dir = None THEN config.directory ELSE input_dir
        verilog_files == GlobAll(dir, config.file_extensions, 1)
    IN  ParseEach(Emit(w, "found", Len(verilog_files)), verilog_files, 1)

(***************************************************************************)
(* The external model.  One call either returns a text or raises; which    *)
(* one is the environment's choice (an outcome).                           *)
(***************************************************************************)
ModelOutcomes ==
    {[ok |-> TRUE, content |-> <<" ", "T", "\n">>],
     [ok |-> FALSE, content |-> <<"timeout">>]}

AnalysisPlaceholder(module, outcome) ==
    <<"Analysis failed for module ", module.name, ": ">> \o outcome.content

\* a failed call leaves the analysis empty
AnalyzeSingleModuleNoPlaceholder(w, i, outcome) ==
    LET called == Emit(w, "llm_module", i)
    IN  IF outcome.ok
        THEN [w |-> called, analysis |-> PyStrip(outcome.content)]
        ELSE [w |-> Emit(called, "llm_module_failed", i), analysis |-> <<>>]

\* a failed call is made a second time
AnalyzeSingleModuleRetry(w, i, outcome) ==
    LET called == Emit(w, "llm_module", i)
    IN  IF outcome.ok
        THEN [w |-> called, analysis |-> PyStrip(outcome.content)]
        ELSE [w |-> Emit(Emit(called, "llm_module_failed", i), "llm_module", i),
              analysis |-> AnalysisPlaceholder(w.modules[i], outcome)]

\* _analyze_single_module on self.modules[i]: the world after it and the text returned
AnalyzeSingleModule(w, i, outcome) ==
    LET called == Emit(w, "llm_module", i)
    IN  IF outcome.ok
        THEN [w |-> called, analysis |-> PyStrip(outcome.content)]
        ELSE [w |-> Emit(called, "llm_module_failed", i),
              analysis |-> AnalysisPlaceholder(w.modules[i], outcome)]

\* the loop of analyze_modules from index i on; outcomes[i] is the i-th call's outcome
RECURSIVE AnalyzeFrom(_, _, _)
AnalyzeFrom(w, outcomes, i) ==
    IF i > Len(w.modules) THEN w
    ELSE The({AnalyzeFrom([r.w EXCEPT !.modules[i].analysis = r.analysis], outcomes, i + 1) :
              r \in {AnalyzeSingleModule(w, i, outcomes[i])}})

\* analyze_modules
AnalyzeModules(w, outcomes) == AnalyzeFrom(Emit(w, "analyze_modules", 0), outcomes, 1)

(***************************************************************************)
(* Document generation.                                                    *)
(***************************************************************************)
\* _generate_fallback_document
FallbackDocument ==
    <<"\n", "\\begin{center}", "title", "\\end{center}", "\n\n",
      "\\newpage", "\\tableofcontents", "\\newpage", "\n\n",
      "\\section{Introduction}", "intro", "\n\n",
      "\\section{Module Analysis}", "placeholder", "\n\n",
      "\\section{Conclusions}", "summary", "\n">>

\* a failed call yields what the call left instead of the fallback document
GenerateCompleteDocumentNoFallback(w, outcome) ==
    LET called == Emit(Emit(w, "generate_complete_document", 0), "llm_document", 0)
    IN  IF outcome.ok
        THEN [w |-> called, text |-> PyStrip(outcome.content)]
        ELSE [w |-> Emit(called, "fallback", 0), text |-> <<>>]

\* _generate_complete_document: the world after it and the text returned
GenerateCompleteDocument(w, outcome) ==
    LET called == Emit(Emit(w, "generate_complete_document", 0), "llm_document", 0)
    IN  IF outcome.ok
        THEN [w |-> called, text |-> PyStrip(outcome.content)]
        ELSE [w |-> Emit(called, "fallback", 0), text |-> FallbackDocument]

\* the template files that can be opened and read
TemplateFiles == {"template.tex", "plain.tex"}

TemplateText(template_path) ==
    IF template_path = "template.tex"
    THEN <<"PRE">> \o BEGIN_DOC \o <<"OLD">> \o END_DOC \o <<"POST">>
    ELSE <<"PRE", "OLD", "POST">>

\* the paths open(path, 'w') succeeds on
Writable == {"out.tex"}

\* an output file: not there, or written with a text
NoFile == [written |-> FALSE, text |-> <<>>]

File(text) == [written |-> TRUE, text |-> text]

\* generate_latex_document
GenerateLatexDocument(w, config, template_path, output_path, outcome) ==
    LET out == IF output_path = None THEN config.latex_filename ELSE output_path
        template_content == TemplateText(template_path)
    IN  IF template_path \notin TemplateFiles THEN Raise(Emit(w, "read_template", 0), "FileNotFoundError")
        ELSE The({LET new_document == ReplaceEntireDocumentContent(template_content, g.text)
                  IN  IF out \notin Writable THEN Raise(g.w, "PermissionError")
                      ELSE Emit([g.w EXCEPT !.outputs[out] = File(new_document)],
                                "write", 0) :
                  g \in {GenerateCompleteDocument(Emit(w, "read_template", 0), outcome)}})

\* the document is generated before the records are analyzed
RunDocumentFirst(w, config, input_dir, template_path, output_path, outcomes, outcome) ==
    The({IF loaded.modules = <<>> THEN Emit(loaded, "no_modules", 0)
         ELSE The({IF generated.raised # None THEN generated
                   ELSE Emit(AnalyzeModules(generated, outcomes), "summary", 0) :
                   generated \in {GenerateLatexDocument(loaded, config, template_path,
                                                        output_path, outcome)}}) :
         loaded \in {LoadVerilogFiles(Emit(w, "run_complete_analysis", 0), config,
                                      input_dir)}})

\* run_complete_analysis
RunCompleteAnalysis(w, config, input_dir, template_path, output_path, outcomes, outcome) ==
    The({IF loaded.modules = <<>> THEN Emit(loaded, "no_modules", 0)
         ELSE The({IF generated.raised # None THEN generated
                   ELSE Emit(generated, "summary", 0) :
                   generated \in {GenerateLatexDocument(AnalyzeModules(loaded, outcomes),
                                                        config, template_path, output_path,
                                                        outcome)}}) :
         loaded \in {LoadVerilogFiles(Emit(w, "run_complete_analysis", 0), config,
                                      input_dir)}})

(***************************************************************************)
(* The tool front end: handle_call_tool.                                   *)
(***************************************************************************)
EmptyArgs == [k \in {} |-> None]

\* arguments.get(key, default)
ArgGet(arguments, key, default) ==
    IF key \in DOMAIN arguments THEN arguments[key] ELSE default

\* the world a method of the instance runs in
World(inst, outs) ==
    [modules |-> inst.modules, events |-> <<>>, outputs |-> outs, raised |-> None]

\* VerilogAnalyzer(config_path) when the configuration loads
NewAnalyzer(config_path) == [config_path |-> config_path, modules |-> <<>>]

\* analyzer_instance = None
NoAnalyzer == [config_path |-> None, modules |-> <<>>]

IsNone(inst) == inst.config_path = None

\* ', '.join(names) if names else 'None'
JoinOrNone(names) ==
    IF names = <<>> THEN <<"None">>
    ELSE PyJoin(<<", ">>, [i \in 1..Len(names) |-> <<names[i]>>])

ParamTexts(parameters) ==
    [i \in 1..Len(parameters) |-> <<parameters[i][1], "=">> \o parameters[i][2]]

PortLines(ports) ==
    <<"Inputs: ">> \o JoinOrNone(ports.inputs) \o <<"\n", "Outputs: ">>
    \o JoinOrNone(ports.outputs) \o <<"\n", "Parameters: ">>
    \o (IF ports.parameters = <<>> THEN <<"None">>
        ELSE PyJoin(<<", ">>, ParamTexts(ports.parameters)))

\* ', '.join([m.name for m in modules])
ModuleNames(modules) == PyJoin(<<", ">>, [i \in 1..Len(modules) |-> <<modules[i].name>>])

\* next((i for m in modules if m.name == module_name), None) as an index, 0 for None
FirstNamed(modules, module_name) ==
    First({i \in 1..Len(modules) : modules[i].name = module_name})

\* what the body of the try block leaves: the instance, the files, the log, and either
\* the text returned or the exception raised
Returned(inst, w, text) ==
    [inst |-> IF IsNone(inst) THEN inst ELSE [inst EXCEPT !.modules = w.modules],
     outputs |-> w.outputs, events |-> w.events, raised |-> None, text |-> text]

Raised(inst, w, exc) ==
    [inst |-> IF IsNone(inst) THEN inst ELSE [inst EXCEPT !.modules = w.modules],
     outputs |-> w.outputs, events |-> Append(w.events, Ev(exc, 0)), raised |-> exc,
     text |-> <<>>]

\* the branches of handle_call_tool after the instance is known to exist
Dispatch(name, arguments, inst, w0, outcomes, outcome) ==
    LET config == Config(inst.config_path)
        w == Emit(w0, "dispatch", 0)
    IN  CASE name = "load_verilog_files" ->
               IF "input_dir" \notin DOMAIN arguments THEN Raised(inst, w, "KeyError")
               ELSE IF ~PathExists(arguments.input_dir)
               THEN Returned(inst, w, <<"Error: Directory ", arguments.input_dir,
                                        " does not exist">>)
               ELSE The({Returned(inst, l,
                                  <<"Successfully loaded ", ToString(Len(l.modules)),
                                    " Verilog modules from ", arguments.input_dir, ":\n",
                                    "Modules: ">> \o ModuleNames(l.modules)) :
                         l \in {LoadVerilogFiles(w, config, arguments.input_dir)}})
          [] name = "get_loaded_modules" ->
               IF w.modules = <<>>
               THEN Returned(inst, w,
                             <<"No modules currently loaded. Use load_verilog_files first.">>)
               ELSE Returned(inst, w,
                             <<"Currently loaded modules (", ToString(Len(w.modules)), "):\n">>
                             \o PyJoin(<<"\n">>,
                                       [i \in 1..Len(w.modules) |->
                                           <<"- ", w.modules[i].name, " (from ",
                                             w.modules[i].filename, ")">>]))
          [] name = "parse_verilog_file" ->
               IF "file_path" \notin DOMAIN arguments THEN Raised(inst, w, "KeyError")
               ELSE IF ~PathExists(arguments.file_path)
               THEN Returned(inst, w, <<"Error: File ", arguments.file_path,
                                        " does not exist">>)
               ELSE The({IF l.modules # <<>>
                         THEN LET module == l.modules[Len(l.modules)]
                              IN  Returned(inst, l,
                                           <<"Successfully parsed ", arguments.file_path,
                                             ":\n", "Module: ", module.name, "\n">>
                                           \o PortLines(module.ports))
                         ELSE Returned(inst, l, <<"Failed to parse module from ",
                                                  arguments.file_path>>) :
                         l \in {ParseVerilogFile(w, arguments.file_path)}})
          [] name = "extract_ports" ->
               IF "verilog_code" \notin DOMAIN arguments THEN Raised(inst, w, "KeyError")
               ELSE Returned(inst, w,
                             <<"Extracted ports from Verilog code:\n">>
                             \o PortLines(ExtractPorts(arguments.verilog_code)))
          [] name = "analyze_single_module" ->
               IF "module_name" \notin DOMAIN arguments THEN Raised(inst, w, "KeyError")
               ELSE The({IF i = 0
                         THEN Returned(inst, w,
                                       <<"Module '", arguments.module_name,
                                         "' not found. Available modules: ">>
                                       \o ModuleNames(w.modules))
                         ELSE The({Returned(inst,
                                            [r.w EXCEPT !.modules[i].analysis = r.analysis],
                                            <<"Analysis completed for module '",
                                              arguments.module_name, "':\n\n">>
                                            \o r.analysis) :
                                   r \in {AnalyzeSingleModule(w, i, outcomes[1])}}) :
                         i \in {FirstNamed(w.modules, arguments.module_name)}})
          [] name = "analyze_all_modules" ->
               IF w.modules = <<>>
               THEN Returned(inst, w, <<"No modules loaded. Use load_verilog_files first.">>)
               ELSE The({Returned(inst, a,
                                  <<"Analysis completed for ", ToString(Len(a.modules)),
                                    " modules:\n\n">>
                                  \o PyJoin(<<"\n\n">>,
                                            [i \in 1..Len(a.modules) |->
                                                <<"Module: ", a.modules[i].name,
                                                  "\nAnalysis: ">>
                                                \o PyPrefix(a.modules[i].analysis, 200)
                                                \o <<"...">>])) :
                         a \in {AnalyzeModules(w, outcomes)}})
          [] name = "generate_latex_document" ->
               IF w.modules = <<>>
               THEN Returned(inst, w, <<"No modules loaded. Load and analyze modules first.">>)
               ELSE LET template_path == ArgGet(arguments, "template_path", "template.tex")
                        output_path == ArgGet(arguments, "output_path", None)
                        final_output == IF output_path # None THEN output_path
                                        ELSE config.latex_filename
                    IN  The({IF g.raised # None
                             THEN [Raised(inst, g, g.raised) EXCEPT !.events = g.events]
                             ELSE Returned(inst, g,
                                           <<"LaTeX document generated successfully: ",
                                             final_output>>) :
                             g \in {GenerateLatexDocument(w, config, template_path,
                                                          output_path, outcome)}})
          [] name = "run_complete_analysis" ->
               IF "input_dir" \notin DOMAIN arguments THEN Raised(inst, w, "KeyError")
               ELSE LET template_path == ArgGet(arguments, "template_path", "template.tex")
                        output_path == ArgGet(arguments, "output_path", None)
                        final_output == IF output_path # None THEN output_path
                                        ELSE config.latex_filename
                    IN  The({IF r.raised # None
                             THEN [Raised(inst, r, r.raised) EXCEPT !.events = r.events]
                             ELSE Returned(inst, r,
                                           <<"Complete analysis pipeline finished successfully!\n",
                                             "Processed ", ToString(Len(r.modules)),
                                             " modules\n", "Generated document: ",
                                             final_output, "\n", "Modules: ">>
                                           \o ModuleNames(r.modules)) :
                             r \in {RunCompleteAnalysis(w, config, arguments.input_dir,
                                                        template_path, output_path, outcomes,
                                                        outcome)}})
          [] name = "get_module_details" ->
               IF "module_name" \notin DOMAIN arguments THEN Raised(inst, w, "KeyError")
               ELSE The({IF i = 0
                         THEN Returned(inst, w,
                                       <<"Module '", arguments.module_name,
                                         "' not found. Available modules: ">>
                                       \o ModuleNames(w.modules))
                         ELSE LET module == w.modules[i]
                              IN  Returned(inst, w,
                                          <<"Module: ", module.name, "\n", "File: ",
                                            module.filename, "\n">>
                                          \o PortLines(module.ports)
                                          \o <<"\n", "Has Analysis: ",
                                               IF module.analysis # <<>> THEN "Yes" ELSE "No",
                                               "\n">>
                                          \o (IF module.analysis # <<>>
                                              THEN <<"\nAnalysis Preview:\n">>
                                                   \o PyPrefix(module.analysis, 300)
                                                   \o <<"...">>
                                              ELSE <<>>)) :
                         i \in {FirstNamed(w.modules, arguments.module_name)}})
          [] OTHER -> Returned(inst, w, <<"Unknown tool: ", name>>)

\* a failed initialize_analyzer leaves no analyzer instance
TryBodyFailedInitClears(name, arguments, inst, outs, default_status, outcomes, outcome) ==
    LET nobody == [modules |-> <<>>, events |-> <<>>, outputs |-> outs, raised |-> None]
        config_path == IF name = "initialize_analyzer"
                       THEN ArgGet(arguments, "config_path", DefaultConfigPath)
                       ELSE DefaultConfigPath
        err == ConfigError(config_path, default_status)
    IN  IF name = "initialize_analyzer"
        THEN IF err # None
             THEN Raised(NoAnalyzer, Emit(nobody, "construct_failed", 0), err)
             ELSE Returned(NewAnalyzer(config_path), Emit(nobody, "construct", 0),
                           <<"Verilog analyzer initialized successfully with config: ",
                             config_path>>)
        ELSE IF IsNone(inst) /\ err # None
        THEN Raised(inst, Emit(nobody, "construct_failed", 0), err)
        ELSE Dispatch(name, arguments,
                      IF IsNone(inst) THEN NewAnalyzer(DefaultConfigPath) ELSE inst,
                      IF IsNone(inst) THEN Emit(nobody, "construct", 0) ELSE World(inst, outs),
                      outcomes, outcome)

\* every operation but the initializer builds a default analyzer, instance or not
TryBodyAlwaysConstruct(name, arguments, inst, outs, default_status, outcomes, outcome) ==
    LET nobody == [modules |-> <<>>, events |-> <<>>, outputs |-> outs, raised |-> None]
        config_path == IF name = "initialize_analyzer"
                       THEN ArgGet(arguments, "config_path", DefaultConfigPath)
                       ELSE DefaultConfigPath
        err == ConfigError(config_path, default_status)
    IN  IF name = "initialize_analyzer"
        THEN IF err # None
             THEN Raised(inst, Emit(World(inst, outs), "construct_failed", 0), err)
             ELSE Returned(NewAnalyzer(config_path), Emit(nobody, "construct", 0),
                           <<"Verilog analyzer initialized successfully with config: ",
                             config_path>>)
        ELSE IF err # None
        THEN Raised(inst, Emit(nobody, "construct_failed", 0), err)
        ELSE Dispatch(name, arguments, NewAnalyzer(DefaultConfigPath),
                      Emit(nobody, "construct", 0), outcomes, outcome)

\* the body of the try block of handle_call_tool
TryBody(name, arguments, inst, outs, default_status, outcomes, outcome) ==
    LET nobody == [modules |-> <<>>, events |-> <<>>, outputs |-> outs, raised |-> None]
        config_path == IF name = "initialize_analyzer"
                       THEN ArgGet(arguments, "config_path", DefaultConfigPath)
                       ELSE DefaultConfigPath
        err == ConfigError(config_path, default_status)
    IN  IF name = "initialize_analyzer"
        THEN IF err # None
             THEN Raised(inst, Emit(World(inst, outs), "construct_failed", 0), err)
             ELSE Returned(NewAnalyzer(config_path), Emit(nobody, "construct", 0),
                           <<"Verilog analyzer initialized successfully with config: ",
                             config_path>>)
        ELSE IF IsNone(inst) /\ err # None
        THEN Raised(inst, Emit(nobody, "construct_failed", 0), err)
        ELSE Dispatch(name, arguments,
                      IF IsNone(inst) THEN NewAnalyzer(DefaultConfigPath) ELSE inst,
                      IF IsNone(inst) THEN Emit(nobody, "construct", 0) ELSE World(inst, outs),
                      outcomes, outcome)

\* what the caller of handle_call_tool gets
TextContent(text) == [type |-> "text", text |-> text]

HandleCallToolNoExcept(name, arguments, inst, outs, default_status, outcomes, outcome) ==
    The({[inst |-> b.inst, outputs |-> b.outputs, events |-> b.events,
          response |-> IF b.raised # None THEN [type |-> "fault", text |-> <<b.raised>>]
                       ELSE TextContent(b.text)] :
         b \in {TryBody(name, arguments, inst, outs, default_status, outcomes, outcome)}})

\* handle_call_tool: try: ... except Exception as e: return the error as text
HandleCallTool(name, arguments, inst, outs, default_status, outcomes, outcome) ==
    The({[inst |-> b.inst, outputs |-> b.outputs, events |-> b.events,
          response |-> IF b.raised # None
                       THEN TextContent(<<"Error executing tool ", name, ": ", b.raised>>)
                       ELSE TextContent(b.text)] :
         b \in {TryBody(name, arguments, inst, outs, default_status, outcomes, outcome)}})

(***************************************************************************)
(* State.                                                                  *)
(*   analyzer_instance  the global of the server: None or the analyzer     *)
(*   outputs            the output files on disk                           *)
(*   config_yaml        what loading config.yaml raises on this machine    *)
(*   call, response     the last tool call handled and what it returned    *)
(*   events             what the last tool call did, in program order      *)
(*   template_content, new_content, new_document                           *)
(*                      the arguments and the result of one call of        *)
(*                      _replace_entire_document_content                   *)
(*   verilog_code, extracted                                               *)
(*                      the argument and the result of one call of         *)
(*                      _extract_ports                                     *)
(***************************************************************************)
VARIABLES analyzer_instance, outputs, config_yaml, call, response, events,
          template_content, new_content, new_document, verilog_code, extracted

vars == <<analyzer_instance, outputs, config_yaml, call, response, events,
          template_content, new_content, new_document, verilog_code, extracted>>

ports_vars == <<verilog_code, extracted>>

server_vars == <<analyzer_instance, outputs, config_yaml, call, response, events>>

splice_vars == <<template_content, new_content, new_document>>

NoCall == [name |-> None, arguments |-> EmptyArgs]

NoResponse == [type |-> None, text |-> <<>>]

\* new_document before and after the call
NotReturned == [returned |-> FALSE, text |-> <<>>]

ReturnedText(text) == [returned |-> TRUE, text |-> text]

\* the result of _extract_ports before and after the call
NoPorts == [inputs |-> <<>>, outputs |-> <<>>, parameters |-> <<>>]

NotExtracted == [returned |-> FALSE, ports |-> NoPorts]

Extracted(p) == [returned |-> TRUE, ports |-> p]

ServerInit ==
    /\ analyzer_instance = NoAnalyzer
    /\ outputs = [p \in Writable |-> NoFile]
    /\ config_yaml \in {None, "FileNotFoundError"}
    /\ call = NoCall
    /\ response = NoResponse
    /\ events = <<>>

Init ==
    /\ ServerInit
    /\ template_content = <<>>
    /\ new_content = <<>>
    /\ new_document = NotReturned
    /\ verilog_code = <<>>
    /\ extracted = NotExtracted

\* an outcome for every model call a handler may make, used to count the calls
SomeOutcome == CHOOSE o \in ModelOutcomes : o.ok

\* (one load appends at most one record per file and extension)
SomeOutcomes == [i \in 1..(MaxModules + 2 * Cardinality(Paths)) |-> SomeOutcome]

CountEvents(evs, e) == Cardinality({i \in 1..Len(evs) : evs[i].ev = e})

\* one call of the tool front end
CallTool(name, arguments) ==
    \E probe \in {HandleCallTool(name, arguments, analyzer_instance, outputs, config_yaml,
                                 SomeOutcomes, SomeOutcome)} :
        /\ Len(probe.inst.modules) <= MaxModules
        /\ \E outcomes \in [1..CountEvents(probe.events, "llm_module") -> ModelOutcomes] :
           \E outcome \in IF CountEvents(probe.events, "llm_document") > 0
                          THEN ModelOutcomes ELSE {SomeOutcome} :
           \E r \in {HandleCallTool(name, arguments, analyzer_instance, outputs, config_yaml,
                                    outcomes, outcome)} :
               /\ analyzer_instance' = r.inst
               /\ outputs' = r.outputs
               /\ call' = [name |-> name, arguments |-> arguments]
               /\ response' = r.response
               /\ events' = r.events
               /\ UNCHANGED <<config_yaml, splice_vars, ports_vars>>

\* the optional arguments of the document operations
OptionalArgs ==
    {EmptyArgs, [template_path |-> "plain.tex"], [template_path |-> "missing.tex"],
     [output_path |-> "ro/out.tex"]}

RunArgs ==
    {EmptyArgs}
    \cup {[input_dir |-> d] : d \in {"rtl", "empty"}}
    \cup {[input_dir |-> "rtl", template_path |-> t] : t \in {"plain.tex", "missing.tex"}}
    \cup {[input_dir |-> "rtl", output_path |-> "ro/out.tex"]}

InitializeAnalyzer ==
    \E a \in {EmptyArgs}
             \cup {[config_path |-> c] :
                      c \in {"twice.yaml", "broken.yaml", "nokey.yaml", "absent.yaml"}} :
        /\ CallTool("initialize_analyzer", a)

LoadVerilogFilesTool ==
    \E a \in {EmptyArgs} \cup {[input_dir |-> d] : d \in {"rtl", "empty", "nodir"}} :
        /\ CallTool("load_verilog_files", a)

GetLoadedModules ==
    /\ CallTool("get_loaded_modules", EmptyArgs)

ParseVerilogFileTool ==
    \E a \in {EmptyArgs}
             \cup {[file_path |-> f] :
                      f \in {"rtl/alu.v", "rtl/notes.v", "rtl/locked.v", "rtl/ghost.v"}} :
        /\ CallTool("parse_verilog_file", a)

ExtractPortsTool ==
    \E a \in {EmptyArgs, [verilog_code |-> AluText], [verilog_code |-> NotesText]} :
        /\ CallTool("extract_ports", a)

AnalyzeSingleModuleTool ==
    \E a \in {EmptyArgs} \cup {[module_name |-> m] : m \in {"alu", "fifo", "ghost"}} :
        /\ CallTool("analyze_single_module", a)

AnalyzeAllModules ==
    /\ CallTool("analyze_all_modules", EmptyArgs)

GenerateLatexDocumentTool ==
    \E a \in OptionalArgs :
        /\ CallTool("generate_latex_document", a)

RunCompleteAnalysisTool ==
    \E a \in RunArgs :
        /\ CallTool("run_complete_analysis", a)

GetModuleDetails ==
    \E a \in {EmptyArgs} \cup {[module_name |-> m] : m \in {"alu", "ghost"}} :
        /\ CallTool("get_module_details", a)

UnknownTool ==
    /\ CallTool("no_such_tool", EmptyArgs)

Next ==
    \/ InitializeAnalyzer
    \/ LoadVerilogFilesTool
    \/ GetLoadedModules
    \/ ParseVerilogFileTool
    \/ ExtractPortsTool
    \/ AnalyzeSingleModuleTool
    \/ AnalyzeAllModules
    \/ GenerateLatexDocumentTool
    \/ RunCompleteAnalysisTool
    \/ GetModuleDetails
    \/ UnknownTool

Spec == Init /\ [][Next]_vars

(***************************************************************************)
(* _replace_entire_document_content on its own: every template of at most  *)
(* MaxTemplateLen tokens and a few bodies.                                 *)
(***************************************************************************)
TemplateTokens == {"\\begin{document}", "\\end{document}", "PRE", "OLD"}

Templates == UNION {[1..n -> TemplateTokens] : n \in 0..MaxTemplateLen}

Bodies == {<<>>, <<"NEW">>, <<"OLD", "\\end{document}">>}

SpliceInit ==
    /\ analyzer_instance = NoAnalyzer
    /\ outputs = [p \in Writable |-> NoFile]
    /\ config_yaml = None
    /\ call = NoCall
    /\ response = NoResponse
    /\ events = <<>>
    /\ template_content \in Templates
    /\ new_content \in Bodies
    /\ new_document = NotReturned
    /\ verilog_code = <<>>
    /\ extracted = NotExtracted

Splice ==
    /\ new_document = NotReturned
    /\ new_document' = ReturnedText(ReplaceEntireDocumentContent(template_content,
                                                                 new_content))
    /\ UNCHANGED <<server_vars, template_content, new_content, ports_vars>>

SpliceNext == Splice

SpliceSpec == SpliceInit /\ [][SpliceNext]_vars

(***************************************************************************)
(* _extract_ports on its own and through the extract_ports tool: every     *)
(* text of at most MaxFragments fragments, with no analyzer yet or with    *)
(* the records of rtl loaded.                                              *)
(***************************************************************************)
Fragments ==
    {<<"input", " ">>, <<"output", " ">>, <<"parameter", " ">>, <<"wire", " ">>,
     <<"a">>, <<"=">>, <<"4">>}

RECURSIVE Texts(_)
Texts(n) ==
    IF n = 0 THEN {<<>>}
    ELSE Texts(n - 1) \cup {t \o f : t \in Texts(n - 1), f \in Fragments}

\* the analyzer after load_verilog_files("rtl") with the default configuration
LoadedAnalyzer ==
    [NewAnalyzer(DefaultConfigPath) EXCEPT
        !.modules = LoadVerilogFiles(World(NewAnalyzer(DefaultConfigPath),
                                           [p \in Writable |-> NoFile]),
                                     Config(DefaultConfigPath), "rtl").modules]

PortsInit ==
    /\ analyzer_instance \in {NoAnalyzer, LoadedAnalyzer}
    /\ outputs = [p \in Writable |-> NoFile]
    /\ config_yaml = None
    /\ call = NoCall
    /\ response = NoResponse
    /\ events = <<>>
    /\ template_content = <<>>
    /\ new_content = <<>>
    /\ new_document = NotReturned
    /\ verilog_code \in Texts(MaxFragments)
    /\ extracted = NotExtracted

\* analyzer._extract_ports(verilog_code), called directly
ExtractPortsCall ==
    /\ extracted = NotExtracted
    /\ extracted' = Extracted(ExtractPorts(verilog_code))
    /\ UNCHANGED <<server_vars, splice_vars, verilog_code>>

\* the extract_ports tool on the same text
ExtractPortsOfCode ==
    /\ call = NoCall
    /\ CallTool("extract_ports", [verilog_code |-> verilog_code])

PortsNext == ExtractPortsCall \/ ExtractPortsOfCode

PortsSpec == PortsInit /\ [][PortsNext]_vars

(***************************************************************************)
(* Properties.                                                             *)
(***************************************************************************)
\* the log of the last call
HasEvent(e) == \E k \in 1..Len(events) : events[k].ev = e

EventIndex(e) == First({k \in 1..Len(events) : events[k].ev = e})

\* the n of the events named e, in order
EventArgs(e) ==
    LET ks == SelectSeq([k \in 1..Len(events) |-> k], LAMBDA k : events[k].ev = e)
    IN  [j \in 1..Len(ks) |-> events[ks[j]].n]

Exceptions == {"KeyError", "FileNotFoundError", "PermissionError", "YAMLError", "ValueError"}

RaisedInCall == \E k \in 1..Len(events) : events[k].ev \in Exceptions

Contains(text, token) == \E k \in 1..Len(text) : text[k] = token

Min(a, b) == IF a <= b THEN a ELSE b

Max(a, b) == IF a >= b THEN a ELSE b

\* C1: for every template holding both markers and every body, the result is the template
\* up to and including the first begin marker, a blank-line separator, the body, a
\* separator, and the template from the first end marker on; the text between the
\* markers is not carried over and the text outside them appears once, unchanged.
C1_SpliceKeepsOutsideOnce ==
    LET t == template_content
        b == PyFind(t, BEGIN_DOC)
        e == PyFind(t, END_DOC)
        lo == Min(b, e)
        hi == Max(b + Len(BEGIN_DOC), e + Len(END_DOC))
    IN  (new_document.returned /\ Contains(t, BEGIN_DOC[1]) /\ Contains(t, END_DOC[1])) =>
            /\ new_document.text =
                   PyPrefix(t, b + Len(BEGIN_DOC)) \o NLNL \o new_content \o NLNL
                   \o PySuffix(t, e)
            /\ new_document.text =
                   PyPrefix(t, lo) \o BEGIN_DOC \o NLNL \o new_content \o NLNL \o END_DOC
                   \o PySuffix(t, hi)

\* C2: a template that lacks the begin marker or lacks the end marker is returned
\* unchanged, whatever the body is.
C2_NoMarkerUnchanged ==
    (new_document.returned
     /\ (~Contains(template_content, BEGIN_DOC[1]) \/ ~Contains(template_content, END_DOC[1])))
        => new_document.text = template_content

C2_Witness ==
    /\ new_document.returned
    /\ Contains(template_content, BEGIN_DOC[1])
    /\ ~Contains(template_content, END_DOC[1])
    /\ new_content = <<"NEW">>
    /\ new_document.text = template_content

\* the records whose model call failed during the last call
FailedRecords == {events[k].n : k \in {j \in 1..Len(events) : events[j].ev = "llm_module_failed"}}

Modules == analyzer_instance.modules

\* C3: when the model call for a record raises, the record's analysis becomes a
\* non-empty placeholder holding the module's name, nothing is raised, the other
\* records are still analyzed and a run goes on to assemble the document.
C3_FailedAnalysisPlaceholder ==
    /\ \A i \in FailedRecords :
          /\ i \in 1..Len(Modules)
          /\ Modules[i].analysis # <<>>
          /\ Contains(Modules[i].analysis, Modules[i].name)
    /\ (FailedRecords # {} /\ HasEvent("analyze_modules")) =>
          /\ EventArgs("llm_module") = [i \in 1..Len(Modules) |-> i]
          /\ \A i \in 1..Len(Modules) : i \notin FailedRecords => Modules[i].analysis = <<"T">>
    /\ (FailedRecords # {} /\ call.name = "analyze_all_modules") =>
          /\ ~RaisedInCall
          /\ response.text[1] = "Analysis completed for "
    /\ (FailedRecords # {} /\ call.name = "run_complete_analysis") =>
          /\ HasEvent("read_template")
          /\ \A k \in 1..Len(events) :
                events[k].ev \in Exceptions => k > EventIndex("read_template")

C3_Witness ==
    /\ call.name = "run_complete_analysis"
    /\ Len(Modules) = 2
    /\ FailedRecords = {1}
    /\ Modules[2].analysis = <<"T">>
    /\ HasEvent("write")

\* the run operation was entered by the last call, on this directory
RanOn(dir) ==
    /\ call.name = "run_complete_analysis"
    /\ HasEvent("run_complete_analysis")
    /\ call.arguments.input_dir = dir

\* C4: a run on a directory without matching files loads nothing, raises nothing,
\* makes no model call and writes no output file, whatever calls came before it.
C4_EmptyDirRunDoesNothing ==
    RanOn("empty") =>
        /\ ~HasEvent("loaded")
        /\ ~RaisedInCall
        /\ ~HasEvent("llm_module")
        /\ ~HasEvent("llm_document")
        /\ ~HasEvent("write")

\* the files of a directory that match a configured extension and hold a module
MatchingWithModule(dir, extensions) ==
    SelectSeq(Listing(dir),
              LAMBDA p : /\ \E x \in 1..Len(extensions) : HasSuffix(FileSystem[p].chars, extensions[x])
                         /\ FileSystem[p].readable
                         /\ ModuleMatch(FileSystem[p].text) # None)

\* C5: one load of a directory adds one record for every matching file that holds a
\* module, in listing order, each file once, whatever the extension list is.
C5_OneRecordPerFile ==
    (call.name = "load_verilog_files" /\ HasEvent("found")) =>
        LET files == MatchingWithModule(call.arguments.input_dir,
                                        Config(analyzer_instance.config_path).file_extensions)
        IN  EventArgs("loaded") = [i \in 1..Len(files) |-> FileSystem[files[i]].id]

\* the required arguments of an operation
Required(name) ==
    CASE name \in {"load_verilog_files", "run_complete_analysis"} -> {"input_dir"}
      [] name = "parse_verilog_file" -> {"file_path"}
      [] name = "extract_ports" -> {"verilog_code"}
      [] name \in {"analyze_single_module", "get_module_details"} -> {"module_name"}
      [] OTHER -> {}

ErrorText == response.type = "text" /\ response.text[1] = "Error executing tool "

\* C6: every call returns one text response and raises nothing; an unknown operation
\* and a missing required argument give a text error, and a valid call after it is
\* handled as usual.
C6_AlwaysText ==
    /\ [](call.name # None =>
            /\ response.type = "text"
            /\ response.text # <<>>
            /\ (HasEvent("dispatch") /\ call.name = "no_such_tool") =>
                  response.text = <<"Unknown tool: ", call.name>>
            /\ (HasEvent("dispatch") /\ Required(call.name) \ DOMAIN call.arguments # {}) =>
                  response.text = <<"Error executing tool ", call.name, ": ", "KeyError">>)
    /\ [][(/\ call.name # None
           /\ (ErrorText \/ call.name = "no_such_tool")
           /\ ~IsNone(analyzer_instance)
           /\ call'.name = "get_loaded_modules")
          => response'.text[1] \in {"No modules currently loaded. Use load_verilog_files first.",
                                    "Currently loaded modules ("}]_vars

C6_Witness ==
    /\ call.name = "parse_verilog_file"
    /\ call.arguments = EmptyArgs
    /\ Len(Modules) = 2
    /\ response = TextContent(<<"Error executing tool ", "parse_verilog_file", ": ", "KeyError">>)

\* C7: an operation other than the initializer called while no instance exists builds
\* a default analyzer before it is dispatched; once an instance exists no such call
\* builds another.
C7_LazyInitOnce ==
    [][call'.name # "initialize_analyzer" =>
          /\ IsNone(analyzer_instance) =>
                \/ /\ events'[1].ev = "construct"
                   /\ events'[2].ev = "dispatch"
                   /\ analyzer_instance'.config_path = DefaultConfigPath
                \/ /\ events'[1].ev = "construct_failed"
                   /\ \A k \in 1..Len(events') : events'[k].ev # "dispatch"
                   /\ IsNone(analyzer_instance')
          /\ ~IsNone(analyzer_instance) =>
                /\ events'[1].ev = "dispatch"
                /\ \A k \in 1..Len(events') : events'[k].ev \notin {"construct", "construct_failed"}
                /\ analyzer_instance'.config_path = analyzer_instance.config_path
                /\ Len(analyzer_instance'.modules) >= Len(analyzer_instance.modules)]_vars

C7_Witness ==
    /\ call.name = "get_loaded_modules"
    /\ events[1].ev = "dispatch"
    /\ analyzer_instance.config_path = "twice.yaml"
    /\ Len(Modules) = 2

\* the template and the output file of the last document operation
CallTemplate == ArgGet(call.arguments, "template_path", "template.tex")

CallOutput ==
    ArgGet(call.arguments, "output_path", Config(analyzer_instance.config_path).latex_filename)

Sections(text) == Cardinality({k \in 1..Len(text) : text[k] \in
                      {"\\section{Introduction}", "\\section{Module Analysis}",
                       "\\section{Conclusions}"}})

\* C8, as stated: when the whole-document model call fails nothing is raised, the
\* fallback body with its three sections is spliced into the template and the output
\* file is written.
C8_FallbackSplicedAndWritten ==
    HasEvent("fallback") =>
        /\ ~RaisedInCall
        /\ HasEvent("write")
        /\ CallOutput \in Writable
        /\ outputs[CallOutput].written
        /\ PyFind(outputs[CallOutput].text, FallbackDocument) # -1

\* C8, amended: when the whole-document model call fails, the fallback body (three
\* sections: Introduction, Module Analysis, Conclusions) is what goes to the splice;
\* the output file gets the template with the fallback between its markers when the
\* template has both markers, and the template unchanged when it lacks one; only an
\* output file that cannot be opened stops the write, with the exception raised.
C8_FallbackUsed ==
    HasEvent("fallback") =>
        /\ Sections(FallbackDocument) = 3
        /\ IF CallOutput \in Writable
           THEN /\ ~RaisedInCall
                /\ HasEvent("write")
                /\ outputs[CallOutput].written
                /\ outputs[CallOutput].text =
                       IF CallTemplate = "template.tex"
                       THEN <<"PRE">> \o BEGIN_DOC \o NLNL \o FallbackDocument \o NLNL
                            \o END_DOC \o <<"POST">>
                       ELSE <<"PRE", "OLD", "POST">>
           ELSE /\ events[Len(events)].ev = "PermissionError"
                /\ ~HasEvent("write")

C8_Witness ==
    /\ call.name = "run_complete_analysis"
    /\ HasEvent("fallback")
    /\ CallTemplate = "template.tex"
    /\ outputs["out.tex"].written
    /\ PyFind(outputs["out.tex"].text, FallbackDocument) # -1

\* C9: no model call is made twice: an analyze pass calls the model once for each
\* record, a document generation calls it once, and a failed call is not repeated.
C9_NoRetry ==
    /\ \A i, j \in 1..Len(EventArgs("llm_module")) :
          EventArgs("llm_module")[i] = EventArgs("llm_module")[j] => i = j
    /\ HasEvent("analyze_modules") =>
          EventArgs("llm_module") = [i \in 1..Len(Modules) |-> i]
    /\ Len(EventArgs("llm_document")) = Len(EventArgs("generate_complete_document"))
    /\ Len(EventArgs("llm_document")) <= 1
    /\ Len(EventArgs("fallback")) <= Len(EventArgs("llm_document"))
    /\ Len(EventArgs("llm_module_failed")) <= Len(EventArgs("llm_module"))

C9_Witness ==
    /\ call.name = "run_complete_analysis"
    /\ Len(Modules) = 2
    /\ FailedRecords = {1, 2}
    /\ HasEvent("fallback")
    /\ Len(EventArgs("llm_module")) = 2
    /\ Len(EventArgs("llm_document")) = 1

\* C10: with the analyzer configured, a run never ends with an exception: a failure
\* while loading, analyzing, generating, reading the template or writing the output
\* gives degraded output instead.
C10_RunNeverRaises ==
    (call.name = "run_complete_analysis" /\ HasEvent("run_complete_analysis")) =>
        /\ ~RaisedInCall
        /\ ~ErrorText

\* what identifies a record: everything but the analysis a later pass fills in
Identity(m) == <<m.name, m.filename, m.code, m.ports>>

\* C11: the module collection is append-only over the whole process run: no call,
\* initialize_analyzer included, removes, replaces or reorders a record; records are
\* only added at the end, a name already present giving a separate record.
C11_AppendOnly ==
    [][/\ Len(analyzer_instance'.modules) >= Len(analyzer_instance.modules)
       /\ \A i \in 1..Len(analyzer_instance.modules) :
             Identity(analyzer_instance'.modules[i]) = Identity(analyzer_instance.modules[i])]_vars

\* the files a record can come from: readable, with a module match
SourceOf(m) ==
    {p \in Paths : /\ FileSystem[p].readable
                   /\ FileSystem[p].base = m.filename
                   /\ FileSystem[p].text = m.code
                   /\ ModuleMatch(FileSystem[p].text) = m.name}

\* C12: every record of the collection has a non-empty name and a non-empty source
\* text, and comes from a readable file with a module match; a file without a match
\* and a file that cannot be read give no record.
C12_RecordsNamed ==
    /\ \A i \in 1..Len(Modules) :
          /\ Modules[i].name \notin {None, ""}
          /\ IsWord(Modules[i].name)
          /\ Modules[i].code # <<>>
          /\ SourceOf(Modules[i]) # {}
    /\ \A k \in 1..Len(events) :
          /\ events[k].ev = "loaded" =>
                \E p \in Paths : /\ FileSystem[p].id = events[k].n
                                 /\ FileSystem[p].readable
                                 /\ ModuleMatch(FileSystem[p].text) # None
          /\ events[k].ev \in {"no_module", "parse_error"} =>
                \A p \in Paths : FileSystem[p].id = events[k].n =>
                    (~FileSystem[p].readable \/ ModuleMatch(FileSystem[p].text) = None)
    /\ CountEvents(events, "open") =
           CountEvents(events, "loaded") + CountEvents(events, "no_module")
           + CountEvents(events, "parse_error")

C12_Witness ==
    /\ call.name = "load_verilog_files"
    /\ HasEvent("no_module")
    /\ HasEvent("parse_error")
    /\ Len(Modules) = 2
    /\ Modules[1].name = "alu"
    /\ Modules[2].name = "fifo"

\* the places of the events named in es in the log of the last call
Places(es) == {k \in 1..Len(events) : events[k].ev \in es}

AllBefore(as, bs) == \A a \in Places(as), b \in Places(bs) : a < b

\* C13: in a run that loads at least one module the stages come strictly in the order
\* load, one analysis request per record in collection order, document assembly and
\* write, summary; the document model call comes after every record's request.
C13_StagesInOrder ==
    (call.name = "run_complete_analysis" /\ HasEvent("loaded")) =>
        /\ AllBefore({"run_complete_analysis"}, {"found"})
        /\ AllBefore({"found"}, {"open"})
        /\ AllBefore({"open", "loaded", "no_module", "parse_error"}, {"analyze_modules"})
        /\ AllBefore({"analyze_modules"}, {"llm_module"})
        /\ CountEvents(events, "analyze_modules") = 1
        /\ EventArgs("llm_module") = [i \in 1..Len(Modules) |-> i]
        /\ AllBefore({"llm_module", "llm_module_failed"}, {"read_template"})
        /\ CountEvents(events, "read_template") = 1
        /\ AllBefore({"read_template"}, {"generate_complete_document", "llm_document"})
        /\ AllBefore({"llm_document", "fallback"}, {"write"})
        /\ AllBefore({"write"}, {"summary"})
        /\ HasEvent("llm_document") => \A i \in 1..Len(Modules) : Modules[i].analysis # <<>>
        /\ HasEvent("summary") =>
              /\ events[Len(events)].ev = "summary"
              /\ CountEvents(events, "write") = 1
              /\ CountEvents(events, "llm_document") = 1
        /\ ~RaisedInCall => HasEvent("summary")

C13_Witness ==
    /\ call.name = "run_complete_analysis"
    /\ CountEvents(events, "loaded") = 2
    /\ FailedRecords = {2}
    /\ HasEvent("llm_document")
    /\ events[Len(events)].ev = "summary"

Keywords == {"input", "output", "parameter"}

NoKeyword(text) == \A k \in 1..Len(text) : text[k] \notin Keywords

Occurrences(text, token) == Cardinality({k \in 1..Len(text) : text[k] = token})

\* C14: port extraction raises nothing and changes nothing: a text without input,
\* output and parameter gives three empty sequences, and a call, direct or through
\* the extract_ports tool, leaves the module collection and every record as they were.
C14_ExtractPortsPure ==
    /\ [](/\ extracted.returned =>
               /\ NoKeyword(verilog_code) => extracted.ports = NoPorts
               /\ Len(extracted.ports.inputs) <= Occurrences(verilog_code, "input")
               /\ Len(extracted.ports.outputs) <= Occurrences(verilog_code, "output")
               /\ Len(extracted.ports.parameters) <= Occurrences(verilog_code, "parameter")
          /\ call.name = "extract_ports" =>
               /\ ~RaisedInCall
               /\ response.type = "text"
               /\ response.text[1] = "Extracted ports from Verilog code:\n"
               /\ NoKeyword(call.arguments.verilog_code) =>
                     response.text = <<"Extracted ports from Verilog code:\n",
                                       "Inputs: ", "None", "\n", "Outputs: ", "None", "\n",
                                       "Parameters: ", "None">>)
    /\ [][/\ analyzer_instance'.modules = analyzer_instance.modules
          /\ outputs' = outputs
          /\ verilog_code' = verilog_code]_vars

C14_Witness ==
    /\ extracted.returned
    /\ call.name = "extract_ports"
    /\ verilog_code = <<"wire", " ", "a", "=", "4">>
    /\ extracted.ports = NoPorts
    /\ Len(Modules) = 2

\* the parse tool was given a file that exists
ParsedFile ==
    /\ call.name = "parse_verilog_file"
    /\ HasEvent("open")

\* C15: the parse_verilog_file tool answers "Successfully parsed" only when the call
\* appended a record parsed from the given file; a file that gives no record is
\* answered with the failure text, whatever earlier calls had loaded.
C15_ParseAnswerIsOfThisFile ==
    ParsedFile =>
        /\ response.text[1] = "Successfully parsed " =>
              /\ HasEvent("loaded")
              /\ response.text[5] = ModuleMatch(FileSystem[call.arguments.file_path].text)
        /\ ~HasEvent("loaded") =>
              response.text = <<"Failed to parse module from ", call.arguments.file_path>>

\* C16: the run_complete_analysis tool reports a finished pipeline and a generated
\* document only if the call wrote the output file; a run that stops because no
\* modules are loaded reports no generated document.
C16_RunAnswerOnlyAfterWrite ==
    call.name = "run_complete_analysis" =>
        /\ response.text[1] = "Complete analysis pipeline finished successfully!\n" =>
              HasEvent("write")
        /\ HasEvent("no_modules") => ~Contains(response.text, "Generated document: ")

\* the configuration an initialize_analyzer call names
InitConfigPath(c) == ArgGet(c.arguments, "config_path", DefaultConfigPath)

\* C17: a failed initialize_analyzer call leaves the analyzer instance and its module
\* collection as they were, returns the failure as text, and later calls use that
\* instance.
C17_FailedInitKeepsInstance ==
    /\ [][(/\ call'.name = "initialize_analyzer"
           /\ ConfigError(InitConfigPath(call'), config_yaml) # None)
          => /\ analyzer_instance' = analyzer_instance
             /\ outputs' = outputs
             /\ response' = TextContent(<<"Error executing tool ", "initialize_analyzer", ": ",
                                          ConfigError(InitConfigPath(call'), config_yaml)>>)]_vars
    /\ [][(/\ call.name = "initialize_analyzer"
           /\ ErrorText
           /\ Len(analyzer_instance.modules) > 0
           /\ call'.name = "get_loaded_modules")
          => /\ analyzer_instance' = analyzer_instance
             /\ response'.text[1] = "Currently loaded modules ("
             /\ response'.text[2] = ToString(Len(analyzer_instance.modules))]_vars

C17_Witness ==
    /\ call.name = "initialize_analyzer"
    /\ call.arguments = [config_path |-> "broken.yaml"]
    /\ response = TextContent(<<"Error executing tool ", "initialize_analyzer", ": ",
                                "YAMLError">>)
    /\ analyzer_instance.config_path = "twice.yaml"
    /\ Len(Modules) = 2

====
